---- MODULE Spec2Model ----
(***************************************************************************)
(* Model of src/src/utils/alpha_vantage.py: the self-throttling Alpha      *)
(* Vantage client (RateLimiter, AlphaVantageStatus, symbol formatting and  *)
(* fetch_alpha_vantage_data).  Time is the wall clock in whole seconds.    *)
(***************************************************************************)
EXTENDS Integers, Sequences, FiniteSets, TLC

\* --------------------------------------------------------------- bounds
\* The clock of a run stays within MaxTime seconds of the start of its day.
MaxTime == 84
\* Granularity of the instants at which callers act (seconds).
TickStep == 6
\* Largest number of whole-day jumps of the clock in a run.
MaxDays == 1
\* Largest latency (seconds) of an HTTP response that is not a timeout.
MaxLatency == 6
\* ALPHA_VANTAGE_RATE_LIMIT_DAY (config.py, environment supplied; default 500).
calls_per_day == 5
\* Largest limit passed to get_india_trending_stocks.
MaxLimit == 3

\* The longest ticker format_indian_stock_symbol is tried on.
MaxTicker == 2

\* ------------------------------------------------------ program constants
calls_per_minute == 4
MinInterval == 12
MinuteSpan == 60
DaySpan == 86400
MinuteBuffer == 5
DayBuffer == 300
MarkDuration == 60
StatusCapacity == 5
DefaultLimit == 5
RecentCap == 10
HttpTimeout == 30
DayLimitDuration == 3600

\* Python's None for an optional timestamp.
None == -1

Tasks == {1, 2}

Max(a, b) == IF a >= b THEN a ELSE b

Min(a, b) == IF a <= b THEN a ELSE b

Abs(x) == IF x >= 0 THEN x ELSE 0 - x

\* ------------------------------------------------------------- strings
\* A str is modelled as the sequence of its characters.
Digits == {"0", "1", "2", "3", "4", "5", "6", "7", "8", "9"}

\* str.upper() on one character (the lower-case letters the inputs use).
UpperChar(c) ==
    CASE c = "n" -> "N" [] c = "s" -> "S" [] c = "e" -> "E" [] c = "b" -> "B"
      [] c = "y" -> "Y" [] c = "t" -> "T" [] c = "c" -> "C"
      [] OTHER -> c

Upper(s) == [i \in 1..Len(s) |-> UpperChar(s[i])]

\* ':' in symbol
HasColon(s) == \E i \in 1..Len(s) : s[i] = ":"

\* index of the first ':' (symbol.split(':', 1) splits there)
FirstColon(s) == CHOOSE i \in 1..Len(s) : s[i] = ":" /\ \A j \in 1..(i-1) : s[j] # ":"

SplitExchange(s) == SubSeq(s, 1, FirstColon(s) - 1)

SplitTicker(s) == SubSeq(s, FirstColon(s) + 1, Len(s))

\* str.isdigit(): non-empty and all characters are digits
IsDigitStr(s) == Len(s) > 0 /\ \A i \in 1..Len(s) : s[i] \in Digits

NSE == <<"N", "S", "E">>
BSE == <<"B", "S", "E">>
NYSE == <<"N", "Y", "S", "E">>

format_indian_stock_symbol(symbol, default_exchange) ==
    IF HasColon(symbol)
    THEN IF Upper(SplitExchange(symbol)) \in {NSE, BSE}
         THEN Upper(SplitExchange(symbol)) \o <<":">> \o SplitTicker(symbol)
         ELSE NSE \o <<":">> \o SplitTicker(symbol)
    ELSE IF IsDigitStr(symbol)
         THEN BSE \o <<":">> \o symbol
         ELSE default_exchange \o <<":">> \o symbol

is_indian_stock(symbol) ==
    IF HasColon(symbol)
    THEN Upper(SplitExchange(symbol)) \in {NSE, BSE}
    ELSE TRUE

\* ------------------------------------------------- AlphaVantageStatus
\* "%H:%M:%S" of a timestamp: the time of day.
StrfTime(now) == now % DaySpan

AvInit(now) ==
    [calls_this_minute |-> 0,
     last_reset |-> now,
     available_calls |-> StatusCapacity,
     is_rate_limited |-> FALSE,
     reset_time |-> None,
     recent_calls |-> <<>>]

\* lines 36-42 of update: the minute counter reset
AvMinuteReset(av, now) ==
    IF now - av.last_reset >= MinuteSpan
    THEN [av EXCEPT !.calls_this_minute = 0,
                    !.last_reset = now,
                    !.available_calls = StatusCapacity]
    ELSE av

\* recent_calls.append(...) then pop(0) beyond the cap
AppendRecent(calls, rec) ==
    IF Len(calls) + 1 > RecentCap THEN Tail(Append(calls, rec)) ELSE Append(calls, rec)

av_update(av, now, function, symbol, success) ==
    LET a == AvMinuteReset(av, now) IN
    IF success
    THEN [a EXCEPT !.calls_this_minute = a.calls_this_minute + 1,
                   !.available_calls = Max(0, StatusCapacity - (a.calls_this_minute + 1)),
                   !.recent_calls = AppendRecent(a.recent_calls,
                        [timestamp |-> StrfTime(now), function |-> function,
                         symbol |-> symbol, success |-> success])]
    ELSE a

\* set_rate_limited with the deadline left as it was.
set_rate_limited_no_deadline(av, now, seconds) ==
    [av EXCEPT !.is_rate_limited = TRUE,
               !.available_calls = 0]

\* set_rate_limited; the duration is given in seconds (duration_minutes * 60)
set_rate_limited(av, now, seconds) ==
    [av EXCEPT !.is_rate_limited = TRUE,
               !.reset_time = now + seconds,
               !.available_calls = 0]

check_reset(av, now) ==
    IF av.is_rate_limited /\ av.reset_time # None /\ now >= av.reset_time
    THEN [av EXCEPT !.is_rate_limited = FALSE,
                    !.available_calls = StatusCapacity,
                    !.calls_this_minute = 0,
                    !.last_reset = now]
    ELSE av

\* get_status, lines 77-96: av is the tracker after the call, status the
\* dictionary returned (None where the key is absent)
get_status(av, now) ==
    LET a == check_reset(av, now) IN
    [av |-> a,
     status |->
       [available_calls |-> a.available_calls,
        calls_made_this_minute |-> a.calls_this_minute,
        is_rate_limited |-> a.is_rate_limited,
        seconds_to_next_reset |-> Max(0, MinuteSpan - (now - a.last_reset)),
        recent_calls |-> a.recent_calls,
        rate_limit_reset_in_seconds |->
            IF a.is_rate_limited /\ a.reset_time # None
            THEN Max(0, a.reset_time - now) ELSE None]]

\* --------------------------------------------------------- RateLimiter
RlInit ==
    [minute_calls |-> <<>>,
     day_calls |-> <<>>,
     reset_time |-> None,
     is_rate_limited |-> FALSE,
     last_request_time |-> None]

\* DequeAppend on a deque made without maxlen.
DequeAppendUnbounded(q, x, maxlen) == q \o <<x>>

\* deque(maxlen=n).append(x): a full deque drops its leftmost entry
DequeAppend(q, x, maxlen) ==
    IF Len(q) >= maxlen THEN Tail(q) \o <<x>> ELSE q \o <<x>>

\* while q and now - q[0] > span: q.popleft()
RECURSIVE Evict(_, _, _)
Evict(q, now, span) ==
    IF q # <<>> /\ now - Head(q) > span THEN Evict(Tail(q), now, span) ELSE q

\* ThrottleActive with the throttle given up MinInterval seconds early.
ThrottleActiveEarly(rl, now) == now + MinInterval < rl.reset_time

\* line 118: the deadline of the throttle is still ahead
ThrottleActive(rl, now) == now < rl.reset_time

\* lines 116-130: the throttle check that opens wait_if_needed.
\* go = FALSE is the early "return False".
ThrottleCheck(rl, av, now) ==
    IF rl.is_rate_limited /\ rl.reset_time # None
    THEN IF ThrottleActive(rl, now)
         THEN [go |-> FALSE, rl |-> rl,
               av |-> set_rate_limited(av, now, rl.reset_time - now)]
         ELSE [go |-> TRUE,
               rl |-> [rl EXCEPT !.is_rate_limited = FALSE,
                                 !.minute_calls = <<>>,
                                 !.day_calls = <<>>],
               av |-> check_reset(av, now)]
    ELSE [go |-> TRUE, rl |-> rl, av |-> av]

\* NeedsSleep with the minimum delay left out.
NeedsSleepNever(rl, now) == FALSE

\* lines 133-135: a minimum-interval sleep is due
NeedsSleep(rl, now) ==
    rl.last_request_time # None /\ now - rl.last_request_time < MinInterval

\* line 136
SleepDelay(rl, now) == MinInterval - (now - rl.last_request_time)

\* lines 141-176: eviction, the two capacity checks and the recording of the
\* call.  ret is the value wait_if_needed returns.
Admission(rl, av, now) ==
    LET mc == Evict(rl.minute_calls, now, MinuteSpan)
        dc == Evict(rl.day_calls, now, DaySpan)
        minute_full == Len(mc) >= calls_per_minute
        rl1 == IF minute_full
               THEN [rl EXCEPT !.minute_calls = mc, !.day_calls = dc,
                               !.is_rate_limited = TRUE,
                               !.reset_time = mc[1] + MinuteSpan + MinuteBuffer]
               ELSE [rl EXCEPT !.minute_calls = mc, !.day_calls = dc]
    IN  IF minute_full /\ MinuteSpan - (now - mc[1]) > 0
        THEN [ret |-> FALSE, rl |-> rl1,
              av |-> set_rate_limited(av, now, MinuteSpan)]
        ELSE IF Len(dc) >= calls_per_day
        THEN [ret |-> FALSE,
              rl |-> [rl1 EXCEPT !.is_rate_limited = TRUE,
                                 !.reset_time = dc[1] + DaySpan + DayBuffer],
              av |-> set_rate_limited(av, now, DayLimitDuration)]
        ELSE LET rl2 == [rl1 EXCEPT
                           !.minute_calls = DequeAppend(mc, now, calls_per_minute),
                           !.day_calls = DequeAppend(dc, now, calls_per_day),
                           !.last_request_time = now]
             IN [ret |-> TRUE, rl |-> rl2,
                 av |-> [av EXCEPT
                           !.calls_this_minute = Len(rl2.minute_calls),
                           !.available_calls =
                               Max(0, calls_per_minute - Len(rl2.minute_calls))]]

\* mark_rate_limited, lines 178-184
mark_rate_limited(rl, av, now) ==
    [rl |-> [rl EXCEPT !.is_rate_limited = TRUE, !.reset_time = now + MarkDuration],
     av |-> set_rate_limited(av, now, MarkDuration)]

\* ------------------------------------------- fetch_alpha_vantage_data
ErrNoKey == "Alpha Vantage API key not configured"
ErrNotIndian == "Only Indian stock symbols (NSE/BSE) are supported"
ErrLimited == "Failed to fetch data. Rate limit exceeded. Try again later."
ErrWouldExceed == "Failed to fetch data. Rate limit would be exceeded. Try again later."
ErrRateLimit == "Failed to fetch data. Rate limit exceeded."
ErrParse == "Failed to parse API response"
ErrApi == "API Error: <Error Message>"
ErrAuth == "API authentication failed. Check your API key."
ErrStatus == "API request failed with status <status>"
ErrTimeout == "Request timed out"
ErrException == "Failed to fetch data: <exception>"
Data == "data"

\* "rate limit" in error.lower()
IsRateLimitError(ret) == ret \in {ErrLimited, ErrWouldExceed, ErrRateLimit}

\* lines 258-268: the symbol sent to the provider
FormattedSymbol(function, symbol, default_exchange) ==
    IF function # "SYMBOL_SEARCH" /\ symbol # <<>>
    THEN format_indian_stock_symbol(symbol, default_exchange)
    ELSE symbol

\* lines 258-266: the request is rejected as not Indian
NotIndian(function, symbol, default_exchange) ==
    /\ function # "SYMBOL_SEARCH" /\ symbol # <<>>
    /\ ~is_indian_stock(format_indian_stock_symbol(symbol, default_exchange))

\* line 271
LimitedAtEntry(rl) == rl.is_rate_limited

\* SkipsRequest with the refusal of wait_if_needed ignored.
SkipsRequestNever(can_proceed) == FALSE

\* line 278: "if not can_proceed" skips the request
SkipsRequest(can_proceed) == ~can_proceed

\* What the provider (or the transport) does with one request.
\*   kind   "response", "timeout" (asyncio.TimeoutError) or "exception"
\*   status the HTTP status
\*   body   "json": response.json() yields a dict with the given keys;
\*          "not_json": response.json() raises aiohttp.ContentTypeError;
\*          "bad_json": response.json() raises another exception
\*   freq   the text "API call frequency" occurs in the Note (json) or in the
\*          body text (otherwise)
Resp(kind, status, body, keys, freq) ==
    [kind |-> kind, status |-> status, body |-> body, keys |-> keys, freq |-> freq]

Responses ==
    { Resp("response", 200, "json", {}, FALSE),
      Resp("response", 200, "json", {"Error Message"}, FALSE),
      Resp("response", 200, "json", {"Note"}, TRUE),
      Resp("response", 200, "json", {"Note"}, FALSE),
      Resp("response", 200, "json", {"Note", "Error Message"}, TRUE),
      Resp("response", 200, "not_json", {}, TRUE),
      Resp("response", 200, "not_json", {}, FALSE),
      Resp("response", 200, "bad_json", {}, TRUE),
      Resp("response", 403, "json", {}, FALSE),
      Resp("response", 429, "json", {}, FALSE),
      Resp("response", 500, "json", {}, FALSE),
      Resp("exception", 0, "json", {}, FALSE) }

TimeoutResp == Resp("timeout", 0, "json", {}, FALSE)

\* The provider signals throttling (HTTP 429, a Note with the call-frequency
\* text, or a body that is not JSON and holds that text).
SignalsThrottle(resp) ==
    /\ resp.kind = "response"
    /\ \/ resp.status = 429
       \/ resp.status = 200 /\ resp.body = "json" /\ "Note" \in resp.keys /\ resp.freq
       \/ resp.status = 200 /\ resp.body # "json" /\ resp.freq

Branch(mark, updates, ret) == [mark |-> mark, updates |-> updates, ret |-> ret]

\* ResponseBranch with the av_status.update of the timeout handler left out
\* (and the other responses handled alike).
ResponseBranchNoUpdate(resp) ==
    IF resp.kind = "timeout" THEN Branch(FALSE, <<>>, ErrTimeout)
    ELSE IF resp.kind = "exception" THEN Branch(FALSE, <<FALSE>>, ErrException)
    ELSE IF resp.status = 200 /\ resp.body = "json" /\ resp.keys = {}
         THEN Branch(FALSE, <<TRUE>>, Data)
    ELSE Branch(FALSE, <<FALSE>>, ErrStatus)

\* lines 292-370: the branch taken for a response: whether mark_rate_limited
\* is called, the success arguments of the av_status.update calls made, in
\* order, and the value returned.
ResponseBranch(resp) ==
    IF resp.kind = "timeout" THEN Branch(FALSE, <<FALSE>>, ErrTimeout)
    ELSE IF resp.kind = "exception" THEN Branch(FALSE, <<FALSE>>, ErrException)
    ELSE IF resp.status = 200
    THEN IF resp.body = "not_json"
         THEN IF resp.freq THEN Branch(TRUE, <<FALSE>>, ErrRateLimit)
                           ELSE Branch(FALSE, <<FALSE>>, ErrParse)
         ELSE IF resp.body = "bad_json"
         THEN Branch(FALSE, <<FALSE>>, ErrException)    \* except Exception
         ELSE IF "Error Message" \in resp.keys
         THEN Branch(FALSE, <<FALSE>>, ErrApi)
         ELSE IF "Note" \in resp.keys /\ resp.freq
         THEN Branch(TRUE, <<FALSE>>, ErrRateLimit)
         ELSE Branch(FALSE, <<TRUE>>, Data)
    ELSE IF resp.status = 403 THEN Branch(FALSE, <<FALSE>>, ErrAuth)
    ELSE IF resp.status = 429 THEN Branch(TRUE, <<FALSE>>, ErrRateLimit)
    ELSE Branch(FALSE, <<FALSE>>, ErrStatus)

\* the av_status.update calls of one branch, applied in order
RECURSIVE ApplyUpdates(_, _, _, _, _)
ApplyUpdates(av, now, function, symbol, ups) ==
    IF ups = <<>> THEN av
    ELSE ApplyUpdates(av_update(av, now, function, symbol, Head(ups)),
                      now, function, symbol, Tail(ups))

\* ---------------------------------------------------------------- state
VARIABLES
    clock,         \* datetime.now(), in seconds
    config,        \* ALPHA_VANTAGE_API_KEY set or not, ALPHA_VANTAGE_DEFAULT_EXCHANGE
    rate_limiter,  \* the module-level RateLimiter
    av_status,     \* the module-level AlphaVantageStatus
    task,          \* per caller: where its invocation stands, and what it did
    admitted,      \* the times at which wait_if_needed returned True, in order
    snapshot,      \* the get_status results since the latest admission or fetch
    scan,          \* the get_india_trending_stocks invocation under way, if any
    formatted,     \* the latest format_indian_stock_symbol calls: argument, results
    composite      \* the get_stock_data or get_technical_analysis invocation, if any

vars == <<clock, config, rate_limiter, av_status, task, admitted, snapshot, scan, formatted, composite>>

\* No response (yet).
NoResp == Resp("none", 0, "json", {}, FALSE)

\* A caller with no invocation under way.  The fields after sent record the
\* latest invocation: when it started, the limiter's flag and deadline at its
\* entry, what wait_if_needed returned ("none" while it has not), whether it
\* slept, the HTTP requests issued, the success arguments of its
\* av_status.update calls, the response its request got, the value returned
\* and how it ended.
IdleTask ==
    [stage |-> "idle", op |-> "none", function |-> "", symbol |-> <<>>,
     wake |-> None, sent |-> None,
     started |-> None, limited_at_entry |-> FALSE, deadline_at_entry |-> None,
     can_proceed |-> "none", slept |-> FALSE, http |-> 0, updates |-> <<>>,
     resp |-> NoResp, ret |-> "none", outcome |-> "none"]

Configs ==
    { [api_key |-> TRUE, default_exchange |-> NSE],
      [api_key |-> TRUE, default_exchange |-> NYSE],
      [api_key |-> FALSE, default_exchange |-> NSE] }

\* The (function, symbol) arguments callers pass.
Requests ==
    { <<"GLOBAL_QUOTE", <<"T", "C", "S">> >> }

\* No get_india_trending_stocks invocation under way.  Of an invocation the
\* record keeps: limit; whether the limiter was throttled at entry (line
\* 572); index, the candidates of major_indian_stocks gone through;
\* trending_stocks and rate_limited, the locals of those names; and of its
\* quote fetches, how many were made (fetches), how many HTTP requests they
\* issued (https), the number of the first that returned an error and of the
\* first that returned a rate-limit error (0: none), and how many had been
\* made when trending_stocks reached limit entries (None: not reached).
\* result is the list returned once stage is "done", and sorted tells whether
\* the sort of lines 702-709 went through.  handled and recommendations: the
\* tool handler has built its response from result, and the entries in it.
NoScan ==
    [stage |-> "idle", limit |-> 0, entry_limited |-> FALSE, index |-> 0,
     trending_stocks |-> <<>>, rate_limited |-> FALSE,
     fetches |-> 0, https |-> 0, first_error |-> 0, first_limited |-> 0,
     full_at |-> None, sorted |-> FALSE, result |-> <<>>,
     handled |-> FALSE, recommendations |-> <<>>]

\* No get_stock_data or get_technical_analysis invocation under way.  Of an
\* invocation the record keeps: the function; the fetch it is about to make
\* (stage); the HTTP requests its fetches issued (https); what its quote
\* fetch returned; whether result["indicators"] has "SMA".
NoComposite ==
    [function |-> "", stage |-> "idle", https |-> 0, quote |-> "none", sma |-> FALSE]

\* No format_indian_stock_symbol call made.  After a call: its argument, its
\* result (once) and, when the result was passed to a second call, the
\* result of that (twice).
NoSymbol == [stage |-> "none", symbol |-> <<>>, once |-> <<>>, twice |-> <<>>]

Init ==
    /\ clock = 0
    /\ config \in Configs
    /\ rate_limiter = RlInit
    /\ av_status = AvInit(0)
    /\ task = [t \in Tasks |-> IdleTask]
    /\ admitted = <<>>
    /\ snapshot = <<>>
    /\ scan = NoScan
    /\ formatted = NoSymbol
    /\ composite = NoComposite

\* The instant now lies in the period of MaxTime seconds the run covers.
InPeriod(now) == now % DaySpan <= MaxTime

\* A fresh invocation record of caller t.
NewCall(op, function, symbol) ==
    [IdleTask EXCEPT !.op = op, !.function = function, !.symbol = symbol,
                     !.started = clock,
                     !.limited_at_entry = rate_limiter.is_rate_limited,
                     !.deadline_at_entry = rate_limiter.reset_time]

\* The invocation c returns ret after the av_status.update calls ups.
Return(c, ret, ups) ==
    [c EXCEPT !.stage = "idle", !.ret = ret, !.outcome = "returned",
              !.updates = c.updates \o ups]

\* wait_if_needed has returned a.ret at time now in invocation c (lines
\* 141-176), and the caller goes on: a direct caller gets the value, and
\* fetch_alpha_vantage_data (lines 277-294) either gives up or sends the
\* request.
AfterAdmission(t, c, a, now) ==
    LET c1 == [c EXCEPT !.can_proceed = IF a.ret THEN "True" ELSE "False"] IN
    /\ rate_limiter' = a.rl
    /\ admitted' = IF a.ret THEN Append(admitted, now) ELSE admitted
    /\ IF c.op = "wait"
       THEN /\ av_status' = a.av
            /\ task' = [task EXCEPT ![t] = Return(c1, IF a.ret THEN "True" ELSE "False", <<>>)]
       ELSE IF SkipsRequest(a.ret)
       THEN /\ av_status' = av_update(a.av, now, c.function, c.symbol, FALSE)
            /\ task' = [task EXCEPT ![t] = Return(c1, ErrWouldExceed, <<FALSE>>)]
       ELSE /\ av_status' = a.av
            /\ task' = [task EXCEPT ![t] = [c1 EXCEPT !.stage = "http", !.sent = now,
                                                      !.http = c.http + 1]]

\* wait_if_needed from its first line (lines 114-139) in invocation c: the
\* throttle check, then either the sleep or the admission.
EnterWait(t, c) ==
    LET tc == ThrottleCheck(rate_limiter, av_status, clock) IN
    IF ~tc.go
    THEN AfterAdmission(t, c, [ret |-> FALSE, rl |-> tc.rl, av |-> tc.av], clock)
    ELSE IF NeedsSleep(tc.rl, clock)
    THEN /\ rate_limiter' = tc.rl
         /\ av_status' = tc.av
         /\ task' = [task EXCEPT ![t] =
                [c EXCEPT !.stage = "sleep", !.slept = TRUE,
                          !.wake = clock + SleepDelay(tc.rl, clock)]]
         /\ UNCHANGED admitted
    ELSE AfterAdmission(t, c, Admission(tc.rl, tc.av, clock), clock)

\* A direct call of rate_limiter.wait_if_needed().
WaitIfNeeded(t) ==
    /\ task[t].stage = "idle"
    /\ EnterWait(t, NewCall("wait", "", <<>>))
    /\ snapshot' = <<>>
    /\ UNCHANGED <<clock, config, scan, formatted, composite>>

\* asyncio.sleep(delay) is over (line 138): now is read again and the
\* admission runs.
SleepDone(t) ==
    /\ task[t].stage = "sleep"
    /\ InPeriod(Max(clock, task[t].wake))
    /\ clock' = Max(clock, task[t].wake)
    /\ AfterAdmission(t, task[t], Admission(rate_limiter, av_status, clock'), clock')
    /\ snapshot' = <<>>
    /\ UNCHANGED <<config, scan, formatted, composite>>

\* fetch_alpha_vantage_data, lines 252-255: no API key
FetchNoKey(t, function, symbol) ==
    /\ task[t].stage = "idle"
    /\ ~config.api_key
    /\ av_status' = av_update(av_status, clock, function, symbol, FALSE)
    /\ task' = [task EXCEPT ![t] = Return(NewCall("fetch", function, symbol), ErrNoKey, <<FALSE>>)]
    /\ snapshot' = <<>>
    /\ UNCHANGED <<clock, config, rate_limiter, admitted, scan, formatted, composite>>

\* lines 258-266: not an Indian symbol
FetchNotIndian(t, function, symbol) ==
    /\ task[t].stage = "idle"
    /\ config.api_key
    /\ NotIndian(function, symbol, config.default_exchange)
    /\ av_status' = av_update(av_status, clock, function, symbol, FALSE)
    /\ task' = [task EXCEPT ![t] = Return(NewCall("fetch", function, symbol), ErrNotIndian, <<FALSE>>)]
    /\ snapshot' = <<>>
    /\ UNCHANGED <<clock, config, rate_limiter, admitted, scan, formatted, composite>>

\* lines 270-274: the limiter's flag is set
FetchLimited(t, function, symbol) ==
    /\ task[t].stage = "idle"
    /\ config.api_key
    /\ ~NotIndian(function, symbol, config.default_exchange)
    /\ LimitedAtEntry(rate_limiter)
    /\ av_status' = av_update(av_status, clock, function, symbol, FALSE)
    /\ task' = [task EXCEPT ![t] = Return(NewCall("fetch", function, symbol), ErrLimited, <<FALSE>>)]
    /\ snapshot' = <<>>
    /\ UNCHANGED <<clock, config, rate_limiter, admitted, scan, formatted, composite>>

\* lines 276-277: the call goes to wait_if_needed
FetchWait(t, function, symbol) ==
    /\ task[t].stage = "idle"
    /\ config.api_key
    /\ ~NotIndian(function, symbol, config.default_exchange)
    /\ ~LimitedAtEntry(rate_limiter)
    /\ EnterWait(t, NewCall("fetch", function, symbol))
    /\ snapshot' = <<>>
    /\ UNCHANGED <<clock, config, scan, formatted, composite>>

\* The request of caller t ends with resp at the current time (lines 292-370).
Respond(t, resp) ==
    LET c == task[t]
        b == ResponseBranch(resp)
        m == IF b.mark THEN mark_rate_limited(rate_limiter, av_status, clock)
                       ELSE [rl |-> rate_limiter, av |-> av_status]
    IN /\ rate_limiter' = m.rl
       /\ av_status' = ApplyUpdates(m.av, clock, c.function, c.symbol, b.updates)
       /\ task' = [task EXCEPT ![t] = Return([c EXCEPT !.resp = resp], b.ret, b.updates)]
       /\ UNCHANGED <<config, admitted>>

HttpResponse(t, resp) ==
    /\ task[t].stage = "http"
    /\ Respond(t, resp)
    /\ snapshot' = <<>>
    /\ UNCHANGED <<clock, scan, formatted, composite>>

\* timeout=30 (line 294): asyncio.TimeoutError, HttpTimeout seconds after the
\* request was sent
HttpTimedOut(t) ==
    /\ task[t].stage = "http"
    /\ InPeriod(Max(clock, task[t].sent + HttpTimeout))
    /\ clock' = Max(clock, task[t].sent + HttpTimeout)
    /\ LET c == task[t]
           b == ResponseBranch(TimeoutResp)
       IN /\ av_status' = ApplyUpdates(av_status, clock', c.function, c.symbol, b.updates)
          /\ task' = [task EXCEPT ![t] = Return([c EXCEPT !.resp = TimeoutResp], b.ret, b.updates)]
    /\ snapshot' = <<>>
    /\ UNCHANGED <<config, rate_limiter, admitted, scan, formatted, composite>>

\* The invocation is cancelled at a suspension point: asyncio.CancelledError
\* is a BaseException (Python >= 3.8; setup.py requires >= 3.9), so neither
\* except clause of lines 363-370 catches it.
Cancel(t) ==
    /\ task[t].stage \in {"sleep", "http"}
    /\ task' = [task EXCEPT ![t] = [task[t] EXCEPT !.stage = "idle", !.outcome = "cancelled"]]
    /\ snapshot' = <<>>
    /\ UNCHANGED <<clock, config, rate_limiter, av_status, admitted, scan, formatted, composite>>

\* A caller's record of its latest invocation is kept until time moves on.
Forget(c) == IF c.stage = "idle" THEN IdleTask ELSE c

\* Time passes: step seconds, not beyond the end of a sleep under way nor
\* beyond the latency allowed to a request in flight.
Tick(step) ==
    /\ InPeriod(clock + step)
    /\ \A t \in Tasks : task[t].stage = "http" => clock + step - task[t].sent <= MaxLatency
    /\ \A t \in Tasks : task[t].stage = "sleep" => clock + step <= task[t].wake
    /\ clock' = clock + step
    /\ task' = [t \in Tasks |-> Forget(task[t])]
    /\ UNCHANGED <<config, rate_limiter, av_status, admitted, snapshot, scan, formatted, composite>>

\* A day passes once the callers have been idle to the end of the period of
\* MaxTime seconds.
TickDay(step) ==
    /\ ~InPeriod(clock + step)
    /\ clock \div DaySpan < MaxDays
    /\ \A t \in Tasks : task[t].stage = "idle"
    /\ clock' = clock + DaySpan
    /\ task' = [t \in Tasks |-> Forget(task[t])]
    /\ UNCHANGED <<config, rate_limiter, av_status, admitted, snapshot, scan, formatted, composite>>

\* A direct call of rate_limiter.mark_rate_limited().
MarkRateLimited(t) ==
    /\ task[t].stage = "idle"
    /\ LET m == mark_rate_limited(rate_limiter, av_status, clock) IN
       /\ rate_limiter' = m.rl
       /\ av_status' = m.av
    /\ task' = [task EXCEPT ![t] = Return(NewCall("mark", "", <<>>), "None", <<>>)]
    /\ snapshot' = <<>>
    /\ UNCHANGED <<clock, config, admitted, scan, formatted, composite>>

\* One caller at a time: the sequential use of the module.
Caller == CHOOSE t \in Tasks : \A u \in Tasks : t <= u

\* The program, used sequentially: fetch_alpha_vantage_data and direct calls
\* of wait_if_needed, at instants MinInterval seconds apart within one period.
Next ==
    \/ Tick(MinInterval)
    \/ WaitIfNeeded(Caller)
    \/ SleepDone(Caller)
    \/ \E r \in Requests : FetchNoKey(Caller, r[1], r[2])
    \/ \E r \in Requests : FetchNotIndian(Caller, r[1], r[2])
    \/ \E r \in Requests : FetchLimited(Caller, r[1], r[2])
    \/ \E r \in Requests : FetchWait(Caller, r[1], r[2])
    \/ \E resp \in Responses : HttpResponse(Caller, resp)
    \/ HttpTimedOut(Caller)
    \/ Cancel(Caller)

Spec == Init /\ [][Next]_vars

\* The RateLimiter alone, used sequentially through its public methods at
\* instants TickStep seconds apart.
InitLimiter ==
    /\ Init
    /\ config = [api_key |-> TRUE, default_exchange |-> NSE]

NextLimiter ==
    \/ Tick(TickStep)
    \/ TickDay(TickStep)
    \/ WaitIfNeeded(Caller)
    \/ SleepDone(Caller)
    \/ MarkRateLimited(Caller)
    \/ Cancel(Caller)

SpecLimiter == InitLimiter /\ [][NextLimiter]_vars

\* Two callers of fetch_alpha_vantage_data on one event loop: each runs
\* until it awaits (the sleep of line 138, the request of line 294), and any
\* caller whose await is over may run next.  Every request gets data.
NextConcurrent ==
    \/ Tick(MinInterval)
    \/ \E t \in Tasks : \E r \in Requests : FetchWait(t, r[1], r[2])
    \/ \E t \in Tasks : SleepDone(t)
    \/ \E t \in Tasks : HttpResponse(t, Resp("response", 200, "json", {}, FALSE))

SpecConcurrent == InitLimiter /\ [][NextConcurrent]_vars

\* ------------------------------------- get_status and preflight_check
\* StatusCall with the limiter's throttle cleared together with the tracker's.
StatusCallShared(rl, av, now) ==
    [rl |-> IF check_reset(av, now) # av
            THEN [rl EXCEPT !.is_rate_limited = FALSE,
                            !.minute_calls = <<>>, !.day_calls = <<>>]
            ELSE rl,
     av |-> get_status(av, now).av,
     status |-> get_status(av, now).status]

\* av_status.get_status() at time now, as it acts on the module's two
\* objects: the limiter is not referred to (lines 66-96).
StatusCall(rl, av, now) ==
    [rl |-> rl,
     av |-> get_status(av, now).av,
     status |-> get_status(av, now).status]

\* function_costs.get(function, 1), lines 991-1004
function_costs(function) ==
    IF function = "get_technical_analysis" THEN 2
    ELSE IF function = "get_india_trending_stocks" THEN 5
    ELSE 1

\* The functions preflight_check is asked about.
PreflightFunctions ==
    {"GLOBAL_QUOTE", "get_technical_analysis", "get_india_trending_stocks"}

\* The dictionary preflight_check builds from a status (lines 1004-1027);
\* None where a key is absent.
preflight_result(function, status) ==
    LET cost == function_costs(function)
        can_proceed == status.available_calls >= cost /\ ~status.is_rate_limited
    IN [function |-> function,
        cost |-> cost,
        can_proceed |-> can_proceed,
        recommendation |-> IF can_proceed THEN "proceed" ELSE "wait",
        fallback_available |->
            function \in {"get_india_trending_stocks", "get_technical_analysis"},
        reason |-> IF can_proceed THEN "none"
                   ELSE IF status.is_rate_limited
                        THEN "API is currently rate limited"
                        ELSE "Not enough available calls",
        wait_seconds |->
            IF can_proceed THEN None
            ELSE IF status.is_rate_limited
                 THEN IF status.rate_limit_reset_in_seconds # None
                      THEN status.rate_limit_reset_in_seconds
                      ELSE MinuteSpan
                 ELSE status.seconds_to_next_reset]

\* One more get_status result since the latest admission or fetch: the first
\* and the latest are kept, and of the first only the status.
Observe(snaps, rec) ==
    IF snaps = <<>> THEN <<rec>>
    ELSE <<[snaps[1] EXCEPT !.by = "get_status", !.result = "none"], rec>>

\* What a get_status call made by `by` at the current time leaves behind.
Observation(by, r, result) ==
    [by |-> by, at |-> clock, status |-> r.status, result |-> result,
     limiter_before |-> rate_limiter, limiter_after |-> r.rl]

\* get_alpha_vantage_status(), line 975
GetStatus ==
    LET r == StatusCall(rate_limiter, av_status, clock) IN
    /\ rate_limiter' = r.rl
    /\ av_status' = r.av
    /\ snapshot' = Observe(snapshot, Observation("get_status", r, "none"))
    /\ UNCHANGED <<clock, config, task, admitted, scan, formatted, composite>>

\* preflight_check(function), lines 977-1027
PreflightCheck(function) ==
    LET r == StatusCall(rate_limiter, av_status, clock) IN
    /\ rate_limiter' = r.rl
    /\ av_status' = r.av
    /\ snapshot' = Observe(snapshot,
            Observation("preflight_check", r, preflight_result(function, r.status)))
    /\ UNCHANGED <<clock, config, task, admitted, scan, formatted, composite>>

\* What the provider answers in the runs that watch the status.
StatusResponses ==
    { Resp("response", 200, "json", {}, FALSE),
      Resp("response", 429, "json", {}, FALSE),
      Resp("response", 500, "json", {}, FALSE) }

\* Sequential fetches with get_status and preflight_check calls in between,
\* at instants MinInterval seconds apart.
NextStatus ==
    \/ Tick(MinInterval)
    \/ \E r \in Requests : FetchLimited(Caller, r[1], r[2])
    \/ \E r \in Requests : FetchWait(Caller, r[1], r[2])
    \/ SleepDone(Caller)
    \/ \E resp \in StatusResponses : HttpResponse(Caller, resp)
    \/ GetStatus
    \/ \E f \in PreflightFunctions : PreflightCheck(f)

SpecStatus == InitLimiter /\ [][NextStatus]_vars

\* --------------------------------------------- get_india_trending_stocks
\* A "change percent" value.  Pct(v) is the string for v tenths of a percent
\* ("1.5%" is Pct(15), and Pct(0) is "0%"); Unparseable is a string float()
\* rejects; NotAString is a value that is not a string.
Pct(v) == [is_str |-> TRUE, parses |-> TRUE, value |-> v]

Unparseable == [is_str |-> TRUE, parses |-> FALSE, value |-> 0]

NotAString == [is_str |-> FALSE, parses |-> FALSE, value |-> 0]

\* The head of major_indian_stocks (lines 577-628); a scan reads at most its
\* first 2 * limit entries.
major_indian_stocks ==
    << <<"N", "S", "E", ":", "R", "E", "L", "I", "A", "N", "C", "E">>,
       <<"N", "S", "E", ":", "T", "C", "S">>,
       <<"N", "S", "E", ":", "H", "D", "F", "C", "B", "A", "N", "K">>,
       <<"N", "S", "E", ":", "I", "N", "F", "Y">>,
       <<"N", "S", "E", ":", "H", "I", "N", "D", "U", "N", "I", "L", "V", "R">>,
       <<"N", "S", "E", ":", "I", "C", "I", "C", "I", "B", "A", "N", "K">>,
       <<"N", "S", "E", ":", "S", "B", "I", "N">>,
       <<"N", "S", "E", ":", "B", "A", "J", "F", "I", "N", "A", "N", "C", "E">>,
       <<"N", "S", "E", ":", "B", "H", "A", "R", "T", "I", "A", "R", "T", "L">>,
       <<"N", "S", "E", ":", "K", "O", "T", "A", "K", "B", "A", "N", "K">> >>

\* An entry of static_trending: its symbol, change_percentage and
\* is_fallback_data fields.  origin is a history field, not a key of the
\* dict: it records where the entry was built.
StaticEntry(symbol, change) ==
    [symbol |-> symbol, change_percentage |-> change, is_fallback_data |-> TRUE,
     origin |-> "static"]

\* static_trending, lines 813-910
static_trending ==
    << StaticEntry(<<"N", "S", "E", ":", "R", "E", "L", "I", "A", "N", "C", "E">>, Pct(15)),
       StaticEntry(<<"N", "S", "E", ":", "T", "C", "S">>, Pct(8)),
       StaticEntry(<<"N", "S", "E", ":", "H", "D", "F", "C", "B", "A", "N", "K">>, Pct(21)),
       StaticEntry(<<"N", "S", "E", ":", "I", "N", "F", "Y">>, Pct(-7)),
       StaticEntry(<<"N", "S", "E", ":", "H", "I", "N", "D", "U", "N", "I", "L", "V", "R">>, Pct(4)),
       StaticEntry(<<"N", "S", "E", ":", "I", "C", "I", "C", "I", "B", "A", "N", "K">>, Pct(18)),
       StaticEntry(<<"N", "S", "E", ":", "S", "B", "I", "N">>, Pct(32)),
       StaticEntry(<<"N", "S", "E", ":", "B", "A", "J", "F", "I", "N", "A", "N", "C", "E">>, Pct(-12)) >>

\* get_static_trending_stocks(limit), line 913, for limit >= 0
get_static_trending_stocks(limit) ==
    SubSeq(static_trending, 1, Min(limit, Len(static_trending)))

\* line 632
symbols_to_try(limit) == Min(limit * 2, Len(major_indian_stocks))

\* The body of a successful GLOBAL_QUOTE response as the scan reads it (lines
\* 652-658): whether it has a "Global Quote" object, whether that has a
\* "05. price", and its "10. change percent" (Pct(0), the default, if absent).
Quote(global_quote, price, change_percent) ==
    [global_quote |-> global_quote, price |-> price, change_percent |-> change_percent]

\* A body with no "Global Quote" object.
NoQuote == Quote(FALSE, FALSE, Pct(0))

Quotes ==
    { NoQuote,
      Quote(TRUE, FALSE, Pct(0 - 40)),
      Quote(TRUE, TRUE, Pct(0)),
      Quote(TRUE, TRUE, Pct(0 - 40)),
      Quote(TRUE, TRUE, Unparseable),
      Quote(TRUE, TRUE, NotAString) }

\* lines 657-659: the quote is skipped
SkipsQuote(quote) == ~quote.price \/ quote.change_percent = Pct(0)

\* lines 676-686: the entry appended for a live quote; the dict has no
\* "is_fallback_data" key.  origin is the history field of StaticEntry.
LiveEntry(symbol, quote) ==
    [symbol |-> symbol, change_percentage |-> quote.change_percent,
     origin |-> "live"]

\* The key of the sort (lines 704-705)
SortKey(entry) ==
    IF entry.change_percentage.is_str THEN Abs(entry.change_percentage.value) ELSE 0

\* float() raises ValueError on the key of some entry
SortRaises(stocks) ==
    \E i \in 1..Len(stocks) :
        stocks[i].change_percentage.is_str /\ ~stocks[i].change_percentage.parses

\* list.sort(key=..., reverse=True) is stable: the place of entry i is
\* behind the entries of larger key and the earlier entries of equal key.
SortedPlace(stocks, i) ==
    1 + Cardinality({j \in 1..Len(stocks) :
                        \/ SortKey(stocks[j]) > SortKey(stocks[i])
                        \/ SortKey(stocks[j]) = SortKey(stocks[i]) /\ j < i})

SortDescending(stocks) ==
    [k \in 1..Len(stocks) |->
        stocks[CHOOSE i \in 1..Len(stocks) : SortedPlace(stocks, i) = k]]

\* lines 702-709: the sort, given up when a key cannot be computed
SortTrending(stocks) ==
    IF SortRaises(stocks) THEN stocks ELSE SortDescending(stocks)

\* Padded with nothing taken from the static catalogue.
PaddedNever(stocks, rate_limited, limit) == stocks

\* lines 696-699: the fallback entries appended
Padded(stocks, rate_limited, limit) ==
    IF rate_limited \/ Len(stocks) < limit
    THEN stocks \o get_static_trending_stocks(limit - Len(stocks))
    ELSE stocks

\* lines 695-711: from the end of the loop to the return
ScanFinish(sc) ==
    LET stocks == SortTrending(Padded(sc.trending_stocks, sc.rate_limited, sc.limit))
    IN [sc EXCEPT !.stage = "done",
                  !.sorted = ~SortRaises(Padded(sc.trending_stocks, sc.rate_limited, sc.limit)),
                  !.result = SubSeq(stocks, 1, Min(sc.limit, Len(stocks)))]

\* The for loop goes to its next candidate, or ends (line 634).
ScanAdvance(sc) ==
    IF sc.index >= symbols_to_try(sc.limit) THEN ScanFinish(sc) ELSE sc

\* EnoughStocks with the test left out.
EnoughStocksNever(stocks, limit) == FALSE

\* line 689
EnoughStocks(stocks, limit) == Len(stocks) >= limit

\* fetch_alpha_vantage_data from the return of wait_if_needed, which gave a
\* at time t1, to its own return (lines 278-370): the request is answered by
\* resp at once, or times out.
FetchRequest(a, t1, function, symbol, resp) ==
    IF SkipsRequest(a.ret)
    THEN [rl |-> a.rl, av |-> av_update(a.av, t1, function, symbol, FALSE),
          now |-> t1, ret |-> ErrWouldExceed, admitted |-> FALSE, http |-> 0]
    ELSE
    LET b  == ResponseBranch(resp)
        t2 == IF resp.kind = "timeout" THEN t1 + HttpTimeout ELSE t1
        m  == IF b.mark THEN mark_rate_limited(a.rl, a.av, t2)
              ELSE [rl |-> a.rl, av |-> a.av]
    IN [rl |-> m.rl,
        av |-> ApplyUpdates(m.av, t2, function, symbol, b.updates),
        now |-> t2, ret |-> b.ret, admitted |-> TRUE, http |-> 1]

\* wait_if_needed after its throttle check gave tc (lines 132-176), and the
\* rest of the fetch.
FetchAdmission(tc, now, function, symbol, resp) ==
    IF ~tc.go
    THEN FetchRequest([ret |-> FALSE, rl |-> tc.rl, av |-> tc.av],
                      now, function, symbol, resp)
    ELSE IF NeedsSleep(tc.rl, now)
    THEN FetchRequest(Admission(tc.rl, tc.av, now + SleepDelay(tc.rl, now)),
                      now + SleepDelay(tc.rl, now), function, symbol, resp)
    ELSE FetchRequest(Admission(tc.rl, tc.av, now), now, function, symbol, resp)

\* One invocation of fetch_alpha_vantage_data (lines 252-370) run from entry
\* to return with no other caller in between: the objects, the time and the
\* value at the return, whether wait_if_needed admitted the call and the HTTP
\* requests issued.
FetchOutcome(rl, av, now, cfg, function, symbol, resp) ==
    LET early(ret) ==
            [rl |-> rl, av |-> av_update(av, now, function, symbol, FALSE),
             now |-> now, ret |-> ret, admitted |-> FALSE, http |-> 0]
    IN  IF ~cfg.api_key THEN early(ErrNoKey)
        ELSE IF NotIndian(function, symbol, cfg.default_exchange) THEN early(ErrNotIndian)
        ELSE IF LimitedAtEntry(rl) THEN early(ErrLimited)
        ELSE FetchAdmission(ThrottleCheck(rl, av, now), now, function, symbol, resp)

\* get_india_trending_stocks(limit) up to its loop (lines 571-634).
TrendingStart(limit) ==
    /\ scan.stage = "idle"
    /\ composite.stage = "idle"
    /\ \A t \in Tasks : task[t].stage = "idle"
    /\ scan' = IF rate_limiter.is_rate_limited
               THEN [NoScan EXCEPT !.stage = "done", !.limit = limit,
                                   !.entry_limited = TRUE,
                                   !.result = get_static_trending_stocks(limit)]
               ELSE ScanAdvance([NoScan EXCEPT !.stage = "scan", !.limit = limit])
    /\ task' = [t \in Tasks |-> Forget(task[t])]
    /\ UNCHANGED <<clock, config, rate_limiter, av_status, admitted, snapshot,
                   formatted, composite>>

\* One iteration of the loop (lines 634-693) and, when it ends the loop, the
\* rest of the function: the quote request is answered by resp, with quote as
\* its body if it succeeds.
TrendingStep(resp, quote) ==
    /\ scan.stage = "scan"
    /\ IF rate_limiter.is_rate_limited
       THEN /\ scan' = ScanFinish([scan EXCEPT !.rate_limited = TRUE])
            /\ UNCHANGED <<clock, rate_limiter, av_status, admitted>>
       ELSE \E f \in {FetchOutcome(rate_limiter, av_status, clock, config,
                                    "GLOBAL_QUOTE",
                                    major_indian_stocks[scan.index + 1], resp)} :
            LET symbol == major_indian_stocks[scan.index + 1]
                n == scan.fetches + 1
                sc == [scan EXCEPT
                        !.index = scan.index + 1,
                        !.fetches = n,
                        !.https = scan.https + f.http,
                        !.first_error =
                            IF scan.first_error = 0 /\ f.ret # Data THEN n ELSE @,
                        !.first_limited =
                            IF scan.first_limited = 0 /\ IsRateLimitError(f.ret)
                            THEN n ELSE @]
                stocks == Append(scan.trending_stocks, LiveEntry(symbol, quote))
                full == [sc EXCEPT !.trending_stocks = stocks,
                                   !.full_at = IF @ = None /\ Len(stocks) >= sc.limit
                                               THEN n ELSE @]
            IN  /\ rate_limiter' = f.rl
                /\ av_status' = f.av
                /\ admitted' = IF f.admitted THEN Append(admitted, f.now) ELSE admitted
                /\ IF f.ret # Data
                   THEN /\ clock' = f.now
                        /\ scan' = IF IsRateLimitError(f.ret)
                                   THEN ScanFinish([sc EXCEPT !.rate_limited = TRUE])
                                   ELSE ScanAdvance(sc)
                   ELSE IF ~quote.global_quote \/ SkipsQuote(quote)
                   THEN /\ clock' = f.now
                        /\ scan' = ScanAdvance(sc)
                   ELSE IF EnoughStocks(stocks, sc.limit)
                   THEN /\ clock' = f.now
                        /\ scan' = ScanFinish(full)
                   ELSE /\ clock' = f.now + MinInterval
                        /\ scan' = ScanAdvance(full)
    /\ snapshot' = <<>>
    /\ task' = [t \in Tasks |-> Forget(task[t])]
    /\ UNCHANGED <<config, formatted, composite>>

\* Another caller's request gets a throttle signal (mark_rate_limited, line
\* 304, 321 or 356) before the scan or while it is under way.
MarkedMeanwhile ==
    /\ scan.stage # "done"
    /\ MarkRateLimited(Caller)

\* handlers/tools.py lines 819-825: the dict built for a trending entry; of
\* the keys the model carries it copies "symbol" alone.  origin is the
\* history field of the entry it was built from.
simple_stock(stock) == [symbol |-> stock.symbol, origin |-> stock.origin]

\* handlers/tools.py lines 813-850: the loop over trending_stocks, from
\* entry i on, with the recommendations collected so far.  The size
\* threshold of line 849 is out of reach of a list of at most 8 entries.
RECURSIVE simplified_recommendations(_, _, _, _, _)
simplified_recommendations(stocks, i, exclude_symbols, limit, acc) ==
    IF i > Len(stocks) THEN acc
    ELSE IF stocks[i].symbol = <<>> \/ stocks[i].symbol \in exclude_symbols
    THEN simplified_recommendations(stocks, i + 1, exclude_symbols, limit, acc)
    ELSE IF Len(acc) + 1 >= limit THEN Append(acc, simple_stock(stocks[i]))
    ELSE simplified_recommendations(stocks, i + 1, exclude_symbols, limit,
                                    Append(acc, simple_stock(stocks[i])))

\* The symbols of the portfolio holdings (handlers/tools.py lines 795-796).
Portfolios == { {}, {major_indian_stocks[1]} }

\* handle_call_tool, get_market_trend_recommendations (handlers/tools.py
\* lines 792-861), from the return of get_india_trending_stocks, which it
\* calls with a limit of 1 to 8: the entries it puts in its response.
MarketTrendRecommendations(exclude_symbols) ==
    /\ scan.stage = "done"
    /\ ~scan.handled
    /\ scan.limit >= 1
    /\ scan' = [scan EXCEPT
                  !.handled = TRUE,
                  !.recommendations =
                      simplified_recommendations(scan.result, 1, exclude_symbols,
                                                 scan.limit, <<>>)]
    /\ UNCHANGED <<clock, config, rate_limiter, av_status, task, admitted, snapshot,
                   formatted, composite>>

\* A response with data (lines 326-347).
DataResp == Resp("response", 200, "json", {}, FALSE)

\* The answers to a quote request that make it fail: provider error,
\* malformed body, authentication failure, throttling, timeout.
ScanFailures ==
    { Resp("response", 200, "json", {"Error Message"}, FALSE),
      Resp("response", 200, "not_json", {}, FALSE),
      Resp("response", 403, "json", {}, FALSE),
      Resp("response", 429, "json", {}, FALSE),
      TimeoutResp }

\* One get_india_trending_stocks invocation, with the limiter marked by
\* others before or during it; time passes in the sleeps and the timeouts of
\* the scan.
NextTrending ==
    \/ MarkedMeanwhile
    \/ \E limit \in 0..MaxLimit : TrendingStart(limit)
    \/ \E quote \in Quotes : TrendingStep(DataResp, quote)
    \/ \E resp \in ScanFailures : TrendingStep(resp, NoQuote)
    \/ \E exclude_symbols \in Portfolios : MarketTrendRecommendations(exclude_symbols)

SpecTrending == InitLimiter /\ [][NextTrending]_vars

\* ------------------------------ get_stock_data, get_technical_analysis
\* The JSON object of a successful response as its caller tests it: with the
\* key the caller looks for ("Global Quote", "Technical Analysis: SMA"),
\* non-empty without it, or empty.
Bodies == {"expected", "other", "empty"}

\* The value a fetch that ended as f returned: a dict with "error", or the
\* body.
Returned(f, body) == IF f.ret # Data THEN "error" ELSE body

\* bool(value) of a value returned by a fetch, or of None
Truthy(value) == value \notin {"none", "empty"}

\* The endpoint of each fetch (lines 382, 394, 408, 493, 526).
Endpoint(stage) ==
    CASE stage = "quote" -> "GLOBAL_QUOTE"
      [] stage = "overview" -> "OVERVIEW"
      [] stage = "daily" -> "TIME_SERIES_DAILY"
      [] stage = "sma" -> "SMA"
      [] stage = "rsi" -> "RSI"

\* get_stock_data(symbol) or get_technical_analysis(symbol) up to its first
\* fetch (lines 424-431, 481-493).
CompositeStart(function, first) ==
    /\ composite.stage = "idle"
    /\ scan.stage = "idle"
    /\ \A t \in Tasks : task[t].stage = "idle"
    /\ composite' = [NoComposite EXCEPT
                       !.function = function,
                       !.stage = IF rate_limiter.is_rate_limited THEN "done" ELSE first]
    /\ task' = [t \in Tasks |-> Forget(task[t])]
    /\ UNCHANGED <<clock, config, rate_limiter, av_status, admitted, snapshot, scan,
                   formatted>>

StockDataStart == CompositeStart("get_stock_data", "quote")

TechnicalStart == CompositeStart("get_technical_analysis", "sma")

\* get_stock_data after the fetch of stage c.stage returned value, with the
\* limiter left as rl (lines 436-469).
StockDataAfter(c, value, rl) ==
    CASE c.stage = "quote" ->
            IF value = "error" THEN [c EXCEPT !.stage = "done", !.quote = value]
            ELSE IF value = "expected" /\ ~rl.is_rate_limited
            THEN [c EXCEPT !.stage = "overview", !.quote = value]
            ELSE [c EXCEPT !.stage = "done", !.quote = value]
      [] c.stage = "overview" ->
            IF ~rl.is_rate_limited /\ Truthy(c.quote) /\ Truthy(value)
            THEN [c EXCEPT !.stage = "daily"]
            ELSE [c EXCEPT !.stage = "done"]
      [] c.stage = "daily" -> [c EXCEPT !.stage = "done"]

\* get_technical_analysis after the fetch of stage c.stage returned value
\* (lines 500-559).
TechnicalAfter(c, value, rl) ==
    CASE c.stage = "sma" ->
            IF value = "error" THEN [c EXCEPT !.stage = "done"]
            ELSE IF rl.is_rate_limited /\ value = "expected"
            THEN [c EXCEPT !.stage = "done", !.sma = TRUE]
            ELSE [c EXCEPT !.stage = "rsi", !.sma = (value = "expected")]
      [] c.stage = "rsi" -> [c EXCEPT !.stage = "done"]

\* The next fetch of the invocation: the request is answered by resp, with
\* body as its JSON object if it succeeds.
CompositeStep(function, resp, body) ==
    /\ composite.function = function
    /\ composite.stage \notin {"idle", "done"}
    /\ \E f \in {FetchOutcome(rate_limiter, av_status, clock, config,
                                Endpoint(composite.stage),
                                major_indian_stocks[2], resp)} :
          LET c == [composite EXCEPT !.https = @ + f.http] IN
          /\ rate_limiter' = f.rl
          /\ av_status' = f.av
          /\ clock' = f.now
          /\ admitted' = IF f.admitted THEN Append(admitted, f.now) ELSE admitted
          /\ composite' = IF function = "get_stock_data"
                          THEN StockDataAfter(c, Returned(f, body), f.rl)
                          ELSE TechnicalAfter(c, Returned(f, body), f.rl)
    /\ snapshot' = <<>>
    /\ task' = [t \in Tasks |-> Forget(task[t])]
    /\ UNCHANGED <<config, scan, formatted>>

StockDataStep(resp, body) == CompositeStep("get_stock_data", resp, body)

TechnicalStep(resp, body) == CompositeStep("get_technical_analysis", resp, body)

\* Another caller's request gets a throttle signal before the invocation or
\* between two of its fetches.
MarkedBetween ==
    /\ composite.stage # "done"
    /\ scan.stage = "idle"
    /\ MarkRateLimited(Caller)

\* One invocation of get_stock_data, of get_technical_analysis or of
\* get_india_trending_stocks with its default limit.
NextCost ==
    \/ MarkedBetween
    \/ StockDataStart
    \/ \E body \in Bodies : StockDataStep(DataResp, body)
    \/ \E resp \in ScanFailures : StockDataStep(resp, "empty")
    \/ TechnicalStart
    \/ \E body \in Bodies : TechnicalStep(DataResp, body)
    \/ \E resp \in ScanFailures : TechnicalStep(resp, "empty")
    \/ TrendingStart(DefaultLimit)
    \/ \E quote \in {Quote(TRUE, TRUE, Pct(0 - 40)), Quote(TRUE, TRUE, Pct(0))} :
           TrendingStep(DataResp, quote)
    \/ \E resp \in ScanFailures : TrendingStep(resp, NoQuote)

SpecCost == InitLimiter /\ [][NextCost]_vars

\* ------------------------------------------- format_indian_stock_symbol
\* The characters of the tickers tried: a letter, a digit, the delimiter.
TickerChars == {"A", "5", ":"}

\* The strings over TickerChars of at most MaxTicker characters.
Tickers == UNION { [1..k -> TickerChars] : k \in 0..MaxTicker }

\* The exchange prefixes tried: supported, in either case, and not.
Prefixes == { NSE, <<"n", "s", "e">>, BSE, <<"B", "s", "e">>, NYSE, <<>> }

RELIANCE == <<"R", "E", "L", "I", "A", "N", "C", "E">>

Code500325 == <<"5", "0", "0", "3", "2", "5">>

AAPL == <<"A", "A", "P", "L">>

\* The arguments tried: the tickers bare and behind each prefix, and the
\* inputs of test_symbol_formatting (test_mcp_server.py lines 225-232).
Symbols ==
    Tickers
    \cup { p \o <<":">> \o t : p \in Prefixes, t \in Tickers }
    \cup { RELIANCE, <<"T", "C", "S">>, NSE \o <<":">> \o <<"I", "N", "F", "Y">>,
           Code500325, BSE \o <<":">> \o Code500325, NYSE \o <<":">> \o AAPL }

\* format_indian_stock_symbol(symbol) is called.
FormatSymbol(symbol) ==
    /\ formatted.stage = "none"
    /\ formatted' = [NoSymbol EXCEPT
                       !.stage = "once", !.symbol = symbol,
                       !.once = format_indian_stock_symbol(symbol, config.default_exchange)]
    /\ UNCHANGED <<clock, config, rate_limiter, av_status, task, admitted, snapshot, scan,
                   composite>>

\* The result is passed to format_indian_stock_symbol again.
FormatAgain ==
    /\ formatted.stage = "once"
    /\ formatted' = [formatted EXCEPT
                       !.stage = "twice",
                       !.twice = format_indian_stock_symbol(formatted.once,
                                                            config.default_exchange)]
    /\ UNCHANGED <<clock, config, rate_limiter, av_status, task, admitted, snapshot, scan,
                   composite>>

NextFormat ==
    \/ \E symbol \in Symbols : FormatSymbol(symbol)
    \/ FormatAgain

SpecFormat == Init /\ [][NextFormat]_vars

\* --------------------------------------------------------------- claims
\* The admitted calls whose timestamps lie in the window [from, from + span).
InWindow(from, span) ==
    {j \in 1..Len(admitted) : admitted[j] >= from /\ admitted[j] < from + span}

\* An invocation of caller t that reached the limiter: a direct call of
\* wait_if_needed, or a fetch that passed the key and market checks.
Attempt(t) ==
    /\ task[t].outcome = "returned"
    /\ \/ task[t].op = "wait"
       \/ task[t].op = "fetch" /\ task[t].ret \notin {ErrNoKey, ErrNotIndian}

\* C1: no 60-second window [s, s + 60) holds more than calls_per_minute
\* admitted calls.
C1_MinuteCap ==
    \A i \in 1..Len(admitted) :
        Cardinality(InWindow(admitted[i], MinuteSpan)) <= calls_per_minute

\* C2: no 24-hour window [s, s + 24h) holds more than calls_per_day admitted
\* calls.
C2_DayCap ==
    \A i \in 1..Len(admitted) :
        Cardinality(InWindow(admitted[i], DaySpan)) <= calls_per_day

\* C3: two successive admitted calls are at least MinInterval seconds apart,
\* and last_request_time is the time of the latest admission.
C3_MinSpacing ==
    /\ \A i \in 1..(Len(admitted) - 1) : admitted[i + 1] - admitted[i] >= MinInterval
    /\ admitted # <<>> => rate_limiter.last_request_time = admitted[Len(admitted)]

\* An admission that followed the minimum-interval sleep.
C3_Witness ==
    \E t \in Tasks :
        /\ task[t].slept /\ task[t].can_proceed = "True"
        /\ Len(admitted) >= 2
        /\ admitted[Len(admitted)] - admitted[Len(admitted) - 1] = MinInterval

\* C4: an attempt made while the limiter is throttled and strictly before its
\* deadline is refused: wait_if_needed returns False and
\* fetch_alpha_vantage_data returns a rate-limit error.
C4_ThrottleRefuses ==
    \A t \in Tasks :
        ( /\ Attempt(t)
          /\ task[t].limited_at_entry
          /\ task[t].deadline_at_entry # None
          /\ task[t].started < task[t].deadline_at_entry )
        => /\ task[t].op = "wait" => task[t].ret = "False"
           /\ task[t].op = "fetch" => IsRateLimitError(task[t].ret)
           /\ task[t].http = 0

\* A direct call refused less than MinInterval seconds before the deadline.
C4_Witness ==
    \E t \in Tasks :
        /\ Attempt(t) /\ task[t].op = "wait" /\ task[t].ret = "False"
        /\ task[t].limited_at_entry
        /\ task[t].started < task[t].deadline_at_entry
        /\ task[t].started + MinInterval >= task[t].deadline_at_entry

\* C5: a fetch made with the limiter marked throttled and its deadline
\* reached is not refused for being throttled.
C5_ThrottleClears ==
    \A t \in Tasks :
        ( /\ Attempt(t) /\ task[t].op = "fetch"
          /\ task[t].limited_at_entry
          /\ task[t].deadline_at_entry # None
          /\ task[t].started >= task[t].deadline_at_entry )
        => task[t].ret # ErrLimited

\* C6: one invocation of fetch_alpha_vantage_data issues at most one HTTP
\* request, and none when the limiter is throttled at entry or wait_if_needed
\* refuses.
C6_NoRequestWhenRefused ==
    \A t \in Tasks :
        task[t].op = "fetch" =>
            /\ task[t].http <= 1
            /\ (task[t].limited_at_entry \/ task[t].can_proceed = "False")
                    => task[t].http = 0

\* A fetch that wait_if_needed refused.
C6_Witness ==
    \E t \in Tasks :
        /\ task[t].op = "fetch" /\ task[t].outcome = "returned"
        /\ task[t].can_proceed = "False" /\ ~task[t].limited_at_entry
        /\ task[t].http = 0

\* C7: an invocation of fetch_alpha_vantage_data that returns has called
\* av_status.update exactly once, with success true exactly when it returns
\* the data.
C7_OneUpdate ==
    \A t \in Tasks :
        (task[t].op = "fetch" /\ task[t].outcome = "returned") =>
            /\ Len(task[t].updates) = 1
            /\ task[t].updates[1] <=> task[t].ret = Data

\* A fetch whose request timed out.
C7_Witness ==
    \E t \in Tasks :
        /\ task[t].op = "fetch" /\ task[t].outcome = "returned"
        /\ task[t].ret = ErrTimeout /\ task[t].updates = <<FALSE>>

\* C8: a fetch cancelled while its request is in flight has called
\* av_status.update exactly once, with success false.
C8_CancelRecorded ==
    \A t \in Tasks :
        (task[t].op = "fetch" /\ task[t].outcome = "cancelled" /\ task[t].http = 1)
            => task[t].updates = <<FALSE>>

\* C9: when the provider signals throttling the fetch returns a rate-limit
\* error and, right after, both the limiter and get_status() report the
\* throttle.
C9_SignalMarks ==
    \A t \in Tasks :
        ( /\ task[t].op = "fetch" /\ task[t].outcome = "returned"
          /\ SignalsThrottle(task[t].resp) )
        => /\ IsRateLimitError(task[t].ret)
           /\ rate_limiter.is_rate_limited
           /\ get_status(av_status, clock).status.is_rate_limited

\* C10: a parseable body with both a call-frequency Note and an Error Message
\* is classified as rate limited and marks the throttle.
C10_ThrottleOutranksError ==
    \A t \in Tasks :
        ( /\ task[t].op = "fetch" /\ task[t].outcome = "returned"
          /\ task[t].resp.kind = "response" /\ task[t].resp.status = 200
          /\ task[t].resp.body = "json" /\ task[t].resp.freq
          /\ {"Note", "Error Message"} \subseteq task[t].resp.keys )
        => /\ task[t].ret = ErrRateLimit
           /\ rate_limiter.is_rate_limited

\* C11: a get_status or preflight_check call leaves minute_calls, day_calls,
\* last_request_time, is_rate_limited and reset_time of the limiter as they
\* were.
C11_StatusLeavesLimiter ==
    \A i \in 1..Len(snapshot) :
        snapshot[i].limiter_after = snapshot[i].limiter_before

\* Two calls, the second a preflight_check made with the
\* limiter throttled and its deadline passed, where the tracker's own
\* throttle flag is dropped by the call.
C11_Witness ==
    /\ Len(snapshot) = 2
    /\ snapshot[2].by = "preflight_check"
    /\ snapshot[1].status.is_rate_limited /\ ~snapshot[2].status.is_rate_limited
    /\ snapshot[2].limiter_before.is_rate_limited
    /\ snapshot[2].limiter_before.minute_calls # <<>>
    /\ snapshot[2].at >= snapshot[2].limiter_before.reset_time

\* C12: two get_status calls with no admission or fetch between them agree
\* on available_calls, calls_made_this_minute, is_rate_limited and
\* recent_calls.
C12_SnapshotsAgree ==
    Len(snapshot) = 2 =>
        LET a == snapshot[1].status
            b == snapshot[2].status
        IN /\ a.available_calls = b.available_calls
           /\ a.calls_made_this_minute = b.calls_made_this_minute
           /\ a.is_rate_limited = b.is_rate_limited
           /\ a.recent_calls = b.recent_calls

\* C13: the tracker and the limiter hold the same throttle state: the two
\* is_rate_limited flags are equal and, when set, so are the two deadlines.
C13_ThrottleAgrees ==
    /\ av_status.is_rate_limited = rate_limiter.is_rate_limited
    /\ (av_status.is_rate_limited /\ rate_limiter.is_rate_limited)
            => av_status.reset_time = rate_limiter.reset_time

\* C14: once a fetch has been admitted, between fetches and when not
\* throttled, get_status()['available_calls'] is calls_per_minute less the
\* entries of minute_calls that are at most 60 seconds old.
C14_AvailableMatchesWindow ==
    LET status == get_status(av_status, clock).status
        recent == {i \in 1..Len(rate_limiter.minute_calls) :
                        clock - rate_limiter.minute_calls[i] <= MinuteSpan}
    IN ( /\ \A t \in Tasks : task[t].stage = "idle"
         /\ rate_limiter.last_request_time # None
         /\ ~status.is_rate_limited /\ ~rate_limiter.is_rate_limited )
       => status.available_calls = calls_per_minute - Cardinality(recent)

C16_DistinctSymbols ==
    scan.stage = "done" =>
        \A i, j \in 1..Len(scan.result) :
            i < j => scan.result[i].symbol # scan.result[j].symbol

\* C17: the list returned is in descending order of absolute change percent
\* (stated for the entries whose change percent parses).
C17_SortedByChange ==
    scan.stage = "done" =>
        \A i, j \in 1..Len(scan.result) :
            ( /\ i < j
              /\ scan.result[i].change_percentage.parses
              /\ scan.result[j].change_percentage.parses )
            => SortKey(scan.result[i]) >= SortKey(scan.result[j])

\* C18: no quote fetch is made in a scan after one has returned a rate-limit
\* error, nor after limit live entries have been collected.
C18_StopsWhenLimitedOrFull ==
    /\ scan.first_limited # 0 => scan.fetches = scan.first_limited
    /\ scan.full_at # None => scan.fetches = scan.full_at
    /\ scan.https <= scan.fetches

\* A scan that ended, with candidates left, on the rate-limit error of a
\* fetch that followed a collected live entry.
C18_Witness ==
    /\ scan.stage = "done"
    /\ scan.first_limited > 1
    /\ Len(scan.trending_stocks) >= 1
    /\ scan.index < symbols_to_try(scan.limit)

\* C19: no quote fetch is made in a scan after one has failed, whatever the
\* failure.
C19_AnyFailureStops ==
    scan.first_error # 0 => scan.fetches = scan.first_error

\* stock.get("is_fallback_data") is true: the entry has the key, set to True.
IsFallback(entry) ==
    "is_fallback_data" \in DOMAIN entry /\ entry.is_fallback_data

\* C20: when the limiter is throttled at entry or the first quote fetch
\* fails, the list returned holds static fallback entries only.
C20_AllFallbackWhenUnavailable ==
    ( /\ scan.stage = "done"
      /\ scan.entry_limited \/ scan.first_error = 1 )
    => \A i \in 1..Len(scan.result) : IsFallback(scan.result[i])

\* C21: in the list returned by get_india_trending_stocks an entry has
\* is_fallback_data true exactly when it was taken from the static
\* catalogue, and every entry the tool handler hands to its caller still has
\* the key, with that value.
C21_FallbackFlagPropagates ==
    /\ scan.stage = "done" =>
          \A i \in 1..Len(scan.result) :
              IsFallback(scan.result[i]) <=> scan.result[i].origin = "static"
    /\ scan.handled =>
          \A i \in 1..Len(scan.recommendations) :
              /\ "is_fallback_data" \in DOMAIN scan.recommendations[i]
              /\ scan.recommendations[i].is_fallback_data
                    <=> scan.recommendations[i].origin = "static"

\* The exchange of a formatted symbol is a supported market.
Supported(result) ==
    HasColon(result) /\ SplitExchange(result) \in {NSE, BSE}

\* C22: format_indian_stock_symbol keeps an NSE or BSE prefix, upper-cased,
\* replaces any other prefix by NSE, gives a numeric input BSE and any other
\* input the default exchange; RELIANCE gives NSE:RELIANCE, 500325 and
\* BSE:500325 give BSE:500325, NYSE:AAPL gives NSE:AAPL; and every result
\* is in a supported market.
C22_FormatRules ==
    formatted.stage # "none" =>
        LET x == formatted.symbol
            r == formatted.once
        IN  /\ HasColon(x) /\ Upper(SplitExchange(x)) \in {NSE, BSE}
                => r = Upper(SplitExchange(x)) \o <<":">> \o SplitTicker(x)
            /\ HasColon(x) /\ Upper(SplitExchange(x)) \notin {NSE, BSE}
                => r = NSE \o <<":">> \o SplitTicker(x)
            /\ ~HasColon(x) /\ IsDigitStr(x) => r = BSE \o <<":">> \o x
            /\ ~HasColon(x) /\ ~IsDigitStr(x)
                => r = config.default_exchange \o <<":">> \o x
            /\ x = RELIANCE => r = NSE \o <<":">> \o RELIANCE
            /\ x \in {Code500325, BSE \o <<":">> \o Code500325}
                => r = BSE \o <<":">> \o Code500325
            /\ x = NYSE \o <<":">> \o AAPL => r = NSE \o <<":">> \o AAPL
            /\ Supported(r)

\* C23: format_indian_stock_symbol is idempotent, whatever the input and the
\* configured default exchange.
C23_FormatIdempotent ==
    formatted.stage = "twice" => formatted.twice = formatted.once

\* C24: with fetch_alpha_vantage_data invocations interleaved at their
\* sleeps and requests, no two admissions are less than MinInterval seconds
\* apart.
C24_ConcurrentSpacing ==
    \A i, j \in 1..Len(admitted) :
        i < j => admitted[j] - admitted[i] >= MinInterval

\* C25: whenever the RateLimiter or the AlphaVantageStatus has
\* is_rate_limited set, its reset_time is set too.
C25_LimitedHasDeadline ==
    /\ rate_limiter.is_rate_limited => rate_limiter.reset_time # None
    /\ av_status.is_rate_limited => av_status.reset_time # None

\* Both objects throttled by the day limit of wait_if_needed, the limiter
\* until a day after its oldest call and the tracker for an hour.
C25_Witness ==
    /\ rate_limiter.is_rate_limited /\ av_status.is_rate_limited
    /\ Len(rate_limiter.day_calls) >= calls_per_day
    /\ rate_limiter.reset_time = Head(rate_limiter.day_calls) + DaySpan + DayBuffer
    /\ av_status.reset_time = clock + DayLimitDuration

\* The timestamps of a window are in non-decreasing order.
NonDecreasing(q) == \A i \in 1..(Len(q) - 1) : q[i] <= q[i + 1]

\* Window q2 is q1 with entries removed, then at most one entry appended at
\* the tail, the kept entries unchanged.
AppendOrEvict(q1, q2) ==
    \E k \in 0..Len(q1) :
        \/ q2 = SubSeq(q1, k + 1, Len(q1))
        \/ q2 # <<>> /\ SubSeq(q2, 1, Len(q2) - 1) = SubSeq(q1, k + 1, Len(q1))

\* C26: the minute window holds at most calls_per_minute timestamps and the
\* day window at most calls_per_day, each in non-decreasing order, and a
\* step changes a window only by removing entries and appending at the tail.
C26_WindowsBoundedOrdered ==
    /\ [](/\ Len(rate_limiter.minute_calls) <= calls_per_minute
          /\ Len(rate_limiter.day_calls) <= calls_per_day
          /\ NonDecreasing(rate_limiter.minute_calls)
          /\ NonDecreasing(rate_limiter.day_calls))
    /\ [][/\ AppendOrEvict(rate_limiter.minute_calls, rate_limiter'.minute_calls)
          /\ AppendOrEvict(rate_limiter.day_calls, rate_limiter'.day_calls)]_vars

\* A call admitted with the minute window full: the append dropped the
\* oldest timestamp and the window is full again.
C26_Witness ==
    /\ Len(admitted) > calls_per_minute
    /\ Len(rate_limiter.minute_calls) = calls_per_minute
    /\ rate_limiter.minute_calls[calls_per_minute] = admitted[Len(admitted)]
    /\ rate_limiter.minute_calls[1] > admitted[1]
    /\ clock < DaySpan

\* C27: every av_status.update call of a fetch, with success true or false,
\* appends one record to recent_calls, which keeps the RecentCap latest
\* records in order.  (updates holds the success arguments of the update
\* calls the invocation made, all of them in the step in which it returns.)
C27_EveryCallLogged ==
    [][\A t \in Tasks :
          (task'[t].op = "fetch" /\ task'[t].outcome = "returned")
          => LET n == Len(task'[t].updates)
                 old == av_status.recent_calls
                 new == av_status'.recent_calls
                 kept == Min(Len(old), RecentCap - n)
             IN  /\ Len(new) = kept + n
                 /\ SubSeq(new, 1, kept) = SubSeq(old, Len(old) - kept + 1, Len(old))
                 /\ \A k \in 1..n :
                        /\ new[kept + k].success = task'[t].updates[k]
                        /\ new[kept + k].function = task'[t].function
                        /\ new[kept + k].symbol = task'[t].symbol]_vars

\* C28: when wait_if_needed returns True (the step appends to admitted), the
\* limiter's is_rate_limited is false at the return.
C28_ProceedNotThrottled ==
    [][admitted' # admitted => ~rate_limiter'.is_rate_limited]_vars

\* C29: while av_status.is_rate_limited is set, av_status.available_calls
\* is 0.
C29_ThrottledHasNoCalls ==
    av_status.is_rate_limited => av_status.available_calls = 0

\* C30: one invocation issues no more HTTP requests than the cost
\* preflight_check gives its function: get_stock_data, get_technical_analysis
\* and get_india_trending_stocks with the default limit.
C30_CostBoundsRequests ==
    /\ composite.function = "get_stock_data"
          => composite.https <= function_costs("get_stock_data")
    /\ composite.function = "get_technical_analysis"
          => composite.https <= function_costs("get_technical_analysis")
    /\ scan.limit = DefaultLimit
          => scan.https <= function_costs("get_india_trending_stocks")

====
